---- MODULE Spec2Model ----
(***************************************************************************)
(* Gomoku (five in a row) on a 15 x 15 board: the game state held by AppUI *)
(* in src/gomoku/gomoku/src/main.rs, the operations on it (handle_click,   *)
(* check_winner, restart, ai_move, find_best_move, evaluate_position,      *)
(* evaluate_direction) and the frame handler update() that calls them.     *)
(*                                                                         *)
(* Cell values are the code's: 0 empty, 1 black, 2 white.  board_data is   *)
(* indexed board_data[x][y] as in the code.  A pointer position is a pair  *)
(* of integer pixels; time is counted in hundredths of a second.           *)
(***************************************************************************)
EXTENDS Integers, Sequences, FiniteSets, TLC

VARIABLES game_mode, board_data, is_black, is_winner, player_is_black,
          ai_thinking, color_selected, ai_delay_timer, ai_pending_move,
          last_piece

(* The fields of AppUI that carry game state (main.rs:17-44).  last_piece  *)
(* is a history variable, not a field of AppUI: the piece (1 or 2) of the  *)
(* latest placement since the last restart, 0 when there is none.          *)
vars == <<game_mode, board_data, is_black, is_winner, player_is_black,
          ai_thinking, color_selected, ai_delay_timer, ai_pending_move,
          last_piece>>

----------------------------------------------------------------------------
(* Constants of the program *)

\* side of the board: board_data: [[u8; 15]; 15]
N == 15
\* the centre cell, find_best_move's default and the opening move
CENTER == 7
\* the think delay 0.5 s, in hundredths of a second
AI_DELAY == 50
\* pixel offset of the first board line and the pixel distance of two lines
ORIGIN == 15

GRID == 30

Cells == 0 .. (N - 1)

None == <<>>

EmptyBoard == [x \in Cells |-> [y \in Cells |-> 0]]

\* the four axes of evaluate_position: horizontal, vertical, two diagonals
directions == << <<1, 0>>, <<0, 1>>, <<1, 1>>, <<1, -1>> >>

----------------------------------------------------------------------------
(* The state as one record, so that the sequential code of a handler is a  *)
(* composition of functions on it.                                         *)

Cur ==
  [game_mode |-> game_mode, board_data |-> board_data, is_black |-> is_black,
   is_winner |-> is_winner, player_is_black |-> player_is_black,
   ai_thinking |-> ai_thinking, color_selected |-> color_selected,
   ai_delay_timer |-> ai_delay_timer, ai_pending_move |-> ai_pending_move,
   last_piece |-> last_piece]

Becomes(s) ==
  /\ game_mode' = s.game_mode
  /\ board_data' = s.board_data
  /\ is_black' = s.is_black
  /\ is_winner' = s.is_winner
  /\ player_is_black' = s.player_is_black
  /\ ai_thinking' = s.ai_thinking
  /\ color_selected' = s.color_selected
  /\ ai_delay_timer' = s.ai_delay_timer
  /\ ai_pending_move' = s.ai_pending_move
  /\ last_piece' = s.last_piece

\* AppUI::default
Default ==
  [game_mode |-> "MainMenu", board_data |-> EmptyBoard, is_black |-> TRUE,
   is_winner |-> FALSE, player_is_black |-> TRUE, ai_thinking |-> FALSE,
   color_selected |-> FALSE, ai_delay_timer |-> 0, ai_pending_move |-> None,
   last_piece |-> 0]

\* board_data[x][y] = piece
Put(b, x, y, piece) == [b EXCEPT ![x][y] = piece]

----------------------------------------------------------------------------
(* check_winner *)

\* One of check_winner's for loops: the number of steps i = from .. 4 taken
\* before the loop breaks at the board edge or at a cell that is not cur.
RECURSIVE RunFrom(_, _, _, _, _, _, _)
RunFrom(b, x, y, dx, dy, cur, i) ==
  IF i > 4 THEN 0
  ELSE LET nx == x + dx * i
           ny == y + dy * i
       IN IF nx < 0 \/ nx > 14 \/ ny < 0 \/ ny > 14 THEN 0
          ELSE IF b[nx][ny] # cur THEN 0
          ELSE 1 + RunFrom(b, x, y, dx, dy, cur, i + 1)

\* AxisCount with the second loop left out
AxisCountOneLoop(b, x, y, dx, dy) ==
  1 + RunFrom(b, x, y, -dx, -dy, b[x][y], 1)

\* count after the two loops of one axis: 1, the loop towards (-dx, -dy),
\* the loop towards (dx, dy)
AxisCount(b, x, y, dx, dy) ==
  1 + RunFrom(b, x, y, -dx, -dy, b[x][y], 1) + RunFrom(b, x, y, dx, dy, b[x][y], 1)

\* check_winner that asks for more than five
check_winner_over_five(b, x, y) ==
  \/ AxisCount(b, x, y, 1, 0) > 5
  \/ AxisCount(b, x, y, 0, 1) > 5
  \/ AxisCount(b, x, y, 1, 1) > 5
  \/ AxisCount(b, x, y, 1, -1) > 5

\* check_winner with 4 in place of 5
check_winner_four(b, x, y) ==
  \/ AxisCount(b, x, y, 1, 0) >= 4
  \/ AxisCount(b, x, y, 0, 1) >= 4
  \/ AxisCount(b, x, y, 1, 1) >= 4
  \/ AxisCount(b, x, y, 1, -1) >= 4

check_winner(b, x, y) ==
  \/ AxisCount(b, x, y, 1, 0) >= 5
  \/ AxisCount(b, x, y, 0, 1) >= 5
  \/ AxisCount(b, x, y, 1, 1) >= 5
  \/ AxisCount(b, x, y, 1, -1) >= 5

----------------------------------------------------------------------------
(* The move evaluator *)

\* One of evaluate_direction's for loops, for steps i .. 4 in direction
\* (dx, dy): 8 for every counted piece plus 1 when the loop ends blocked
\* (off the board, or at a piece of the other colour).
RECURSIVE Scan(_, _, _, _, _, _, _)
Scan(b, x, y, dx, dy, piece, i) ==
  IF i > 4 THEN 0
  ELSE LET nx == x + dx * i
           ny == y + dy * i
       IN IF nx < 0 \/ nx >= 15 \/ ny < 0 \/ ny >= 15 THEN 1
          ELSE IF b[nx][ny] = piece THEN 8 + Scan(b, x, y, dx, dy, piece, i + 1)
          ELSE IF b[nx][ny] = 0 THEN 0
          ELSE 1

\* evaluate_direction that takes no account of blocked ends
evaluate_direction_unblocked(b, x, y, dx, dy, piece) ==
  LET both == Scan(b, x, y, dx, dy, piece, 1) + Scan(b, x, y, -dx, -dy, piece, 1)
      count == both \div 8
  IN CASE count = 4 -> 10000
       [] count = 3 -> 1000
       [] count = 2 -> 100
       [] count = 1 -> 10
       [] OTHER -> 0

evaluate_direction(b, x, y, dx, dy, piece) ==
  LET both == Scan(b, x, y, dx, dy, piece, 1) + Scan(b, x, y, -dx, -dy, piece, 1)
      count == both \div 8
      blocked == both % 8
  IN CASE count = 4 -> 10000
       [] count = 3 -> IF blocked = 0 THEN 1000 ELSE 100
       [] count = 2 -> IF blocked = 0 THEN 100 ELSE 10
       [] count = 1 -> IF blocked = 0 THEN 10 ELSE 1
       [] OTHER -> 0

Abs(v) == IF v < 0 THEN -v ELSE v

RECURSIVE DirectionSum(_, _, _, _, _, _)
DirectionSum(b, x, y, ai_piece, player_piece, d) ==
  IF d > Len(directions) THEN 0
  ELSE evaluate_direction(b, x, y, directions[d][1], directions[d][2], ai_piece) * 10
       + evaluate_direction(b, x, y, directions[d][1], directions[d][2], player_piece) * 8
       + DirectionSum(b, x, y, ai_piece, player_piece, d + 1)

\* evaluate_position without the bonus for the centre
evaluate_position_no_centre(b, x, y, ai_piece, player_piece) ==
  DirectionSum(b, x, y, ai_piece, player_piece, 1)

evaluate_position(b, x, y, ai_piece, player_piece) ==
  DirectionSum(b, x, y, ai_piece, player_piece, 1)
  + (14 - (Abs(x - 7) + Abs(y - 7))) * 2

\* BestInRow that also takes a cell whose score equals the best so far
RECURSIVE BestInRowLast(_, _, _, _, _, _)
BestInRowLast(b, ai_piece, player_piece, x, y, best) ==
  IF y >= N THEN best
  ELSE IF b[x][y] = 0
  THEN LET score == evaluate_position(b, x, y, ai_piece, player_piece)
       IN IF score >= best[1]
          THEN BestInRowLast(b, ai_piece, player_piece, x, y + 1, <<score, <<x, y>> >>)
          ELSE BestInRowLast(b, ai_piece, player_piece, x, y + 1, best)
  ELSE BestInRowLast(b, ai_piece, player_piece, x, y + 1, best)

\* The inner loop of find_best_move (for y in 0..15) in row x from column y
\* on; best is <<best_score, best_move>> so far.
RECURSIVE BestInRow(_, _, _, _, _, _)
BestInRow(b, ai_piece, player_piece, x, y, best) ==
  IF y >= N THEN best
  ELSE IF b[x][y] = 0
  THEN LET score == evaluate_position(b, x, y, ai_piece, player_piece)
       IN IF score > best[1]
          THEN BestInRow(b, ai_piece, player_piece, x, y + 1, <<score, <<x, y>> >>)
          ELSE BestInRow(b, ai_piece, player_piece, x, y + 1, best)
  ELSE BestInRow(b, ai_piece, player_piece, x, y + 1, best)

\* The outer loop of find_best_move (for x in 0..15) from row x on.  The
\* test row = row only makes the evaluator finish row x before it starts
\* row x + 1.
RECURSIVE BestFromRow(_, _, _, _, _)
BestFromRow(b, ai_piece, player_piece, x, best) ==
  IF x >= N THEN best
  ELSE LET row == BestInRow(b, ai_piece, player_piece, x, 0, best)
       IN IF row = row THEN BestFromRow(b, ai_piece, player_piece, x + 1, row)
          ELSE row

find_best_move(s) ==
  LET ai_piece == IF s.player_is_black THEN 2 ELSE 1
      player_piece == IF s.player_is_black THEN 1 ELSE 2
  IN BestFromRow(s.board_data, ai_piece, player_piece, 0,
                 <<-1000, <<CENTER, CENTER>> >>)[2]

----------------------------------------------------------------------------
(* handle_click, restart, ai_move *)

\* f32::round of d / 30 for an integer d: to the nearest integer, a half
\* away from zero
RoundDiv(d) ==
  IF d >= 0 THEN (2 * d + GRID) \div (2 * GRID)
  ELSE -((2 * (-d) + GRID) \div (2 * GRID))

\* `as usize` on an f32: a negative value saturates to 0
AsUsize(r) == IF r < 0 THEN 0 ELSE r

\* ((pos - 15.0) / 30.0).round() as usize
ToIndex(p) == AsUsize(RoundDiv(p - ORIGIN))

\* handle_click that does not pass the turn
handle_click_same_side(s, px, py) ==
  LET x == ToIndex(px)
      y == ToIndex(py)
      piece_type == IF s.is_black THEN 1 ELSE 2
  IN IF x > 14 \/ y > 14 THEN s
     ELSE IF s.board_data[x][y] # 0 THEN s
     ELSE LET b == Put(s.board_data, x, y, piece_type)
          IN [s EXCEPT !.board_data = b, !.last_piece = piece_type,
                       !.is_winner = check_winner(b, x, y)]

handle_click(s, px, py) ==
  LET ai_piece == IF s.player_is_black THEN 2 ELSE 1
      current_piece == IF s.is_black THEN 1 ELSE 2
      x == ToIndex(px)
      y == ToIndex(py)
      piece_type == IF s.is_black THEN 1 ELSE 2
  IN IF s.game_mode = "PlayerVsAI" /\ current_piece = ai_piece THEN s
     ELSE IF x > 14 \/ y > 14 THEN s
     ELSE IF s.board_data[x][y] # 0 THEN s
     ELSE LET b == Put(s.board_data, x, y, piece_type)
              placed == [s EXCEPT !.board_data = b,
                                  !.last_piece = piece_type]
          IN IF check_winner(b, x, y)
             THEN [placed EXCEPT !.is_winner = TRUE]
             ELSE [placed EXCEPT !.is_black = ~s.is_black]

\* restart that leaves the delay timer as it is
restart_keep_timer(s) ==
  [s EXCEPT !.board_data = EmptyBoard,
            !.is_black = TRUE,
            !.is_winner = FALSE,
            !.player_is_black = TRUE,
            !.ai_thinking = FALSE,
            !.ai_pending_move = None,
            !.last_piece = 0]

restart(s) ==
  [s EXCEPT !.board_data = EmptyBoard,
            !.is_black = TRUE,
            !.is_winner = FALSE,
            !.player_is_black = TRUE,
            !.ai_thinking = FALSE,
            !.ai_delay_timer = 0,
            !.ai_pending_move = None,
            !.last_piece = 0]

\* ai_move that keeps the pending move and the thinking flag when its
\* stone wins
ai_move_win_keeps_pending(s, delta_time) ==
  LET ai_piece == IF s.player_is_black THEN 2 ELSE 1
      current_piece == IF s.is_black THEN 1 ELSE 2
  IN IF s.game_mode # "PlayerVsAI" \/ s.is_winner THEN s
     ELSE IF current_piece # ai_piece THEN s
     ELSE IF s.ai_pending_move # None
     THEN LET x == s.ai_pending_move[1]
              y == s.ai_pending_move[2]
              timer == s.ai_delay_timer + delta_time
              ticked == [s EXCEPT !.ai_delay_timer = timer]
          IN IF timer >= AI_DELAY
             THEN LET b == Put(s.board_data, x, y, ai_piece)
                      placed == [ticked EXCEPT !.board_data = b,
                                               !.last_piece = ai_piece]
                  IN IF check_winner(b, x, y)
                     THEN [placed EXCEPT !.is_winner = TRUE]
                     ELSE [placed EXCEPT !.is_black = ~s.is_black,
                                         !.ai_pending_move = None,
                                         !.ai_thinking = FALSE,
                                         !.ai_delay_timer = 0]
             ELSE ticked
     ELSE [s EXCEPT !.ai_thinking = TRUE,
                    !.ai_pending_move = find_best_move(s),
                    !.ai_delay_timer = 0]

\* ai_move that applies the pending move only when the timer exceeds the
\* delay
ai_move_late(s, delta_time) ==
  LET ai_piece == IF s.player_is_black THEN 2 ELSE 1
      current_piece == IF s.is_black THEN 1 ELSE 2
  IN IF s.game_mode # "PlayerVsAI" \/ s.is_winner THEN s
     ELSE IF current_piece # ai_piece THEN s
     ELSE IF s.ai_pending_move # None
     THEN LET x == s.ai_pending_move[1]
              y == s.ai_pending_move[2]
              timer == s.ai_delay_timer + delta_time
              ticked == [s EXCEPT !.ai_delay_timer = timer]
          IN IF timer > AI_DELAY
             THEN LET b == Put(s.board_data, x, y, ai_piece)
                      placed == [ticked EXCEPT !.board_data = b,
                                               !.last_piece = ai_piece]
                  IN IF check_winner(b, x, y)
                     THEN [placed EXCEPT !.is_winner = TRUE,
                                         !.ai_pending_move = None,
                                         !.ai_thinking = FALSE]
                     ELSE [placed EXCEPT !.is_black = ~s.is_black,
                                         !.ai_pending_move = None,
                                         !.ai_thinking = FALSE,
                                         !.ai_delay_timer = 0]
             ELSE ticked
     ELSE [s EXCEPT !.ai_thinking = TRUE,
                    !.ai_pending_move = find_best_move(s),
                    !.ai_delay_timer = 0]

\* ai_move whose timer holds the latest frame time only
ai_move_no_sum(s, delta_time) ==
  LET ai_piece == IF s.player_is_black THEN 2 ELSE 1
      current_piece == IF s.is_black THEN 1 ELSE 2
  IN IF s.game_mode # "PlayerVsAI" \/ s.is_winner THEN s
     ELSE IF current_piece # ai_piece THEN s
     ELSE IF s.ai_pending_move # None
     THEN LET x == s.ai_pending_move[1]
              y == s.ai_pending_move[2]
              timer == delta_time
              ticked == [s EXCEPT !.ai_delay_timer = timer]
          IN IF timer >= AI_DELAY
             THEN LET b == Put(s.board_data, x, y, ai_piece)
                      placed == [ticked EXCEPT !.board_data = b,
                                               !.last_piece = ai_piece]
                  IN IF check_winner(b, x, y)
                     THEN [placed EXCEPT !.is_winner = TRUE,
                                         !.ai_pending_move = None,
                                         !.ai_thinking = FALSE]
                     ELSE [placed EXCEPT !.is_black = ~s.is_black,
                                         !.ai_pending_move = None,
                                         !.ai_thinking = FALSE,
                                         !.ai_delay_timer = 0]
             ELSE ticked
     ELSE [s EXCEPT !.ai_thinking = TRUE,
                    !.ai_pending_move = find_best_move(s),
                    !.ai_delay_timer = 0]

ai_move(s, delta_time) ==
  LET ai_piece == IF s.player_is_black THEN 2 ELSE 1
      current_piece == IF s.is_black THEN 1 ELSE 2
  IN IF s.game_mode # "PlayerVsAI" \/ s.is_winner THEN s
     ELSE IF current_piece # ai_piece THEN s
     ELSE IF s.ai_pending_move # None
     THEN LET x == s.ai_pending_move[1]
              y == s.ai_pending_move[2]
              timer == s.ai_delay_timer + delta_time
              ticked == [s EXCEPT !.ai_delay_timer = timer]
          IN IF timer >= AI_DELAY
             THEN LET b == Put(s.board_data, x, y, ai_piece)
                      placed == [ticked EXCEPT !.board_data = b,
                                               !.last_piece = ai_piece]
                  IN IF check_winner(b, x, y)
                     THEN [placed EXCEPT !.is_winner = TRUE,
                                         !.ai_pending_move = None,
                                         !.ai_thinking = FALSE]
                     ELSE [placed EXCEPT !.is_black = ~s.is_black,
                                         !.ai_pending_move = None,
                                         !.ai_thinking = FALSE,
                                         !.ai_delay_timer = 0]
             ELSE ticked
     ELSE [s EXCEPT !.ai_thinking = TRUE,
                    !.ai_pending_move = find_best_move(s),
                    !.ai_delay_timer = 0]

----------------------------------------------------------------------------
(* update: one frame of the event loop *)

InGame(s) ==
  \/ s.game_mode = "PlayerVsPlayer"
  \/ s.game_mode = "PlayerVsAI" /\ s.color_selected

\* the tail of update (main.rs:573-576)
AiStep(s, delta_time) ==
  IF s.game_mode = "PlayerVsAI" /\ ~s.is_winner THEN ai_move(s, delta_time) ELSE s

\* click_frame that passes the press on also when the game is finished
click_frame_always(s, px, py, delta_time) ==
  AiStep(handle_click(s, px, py), delta_time)

\* a frame of the game screen with the pointer pressed at (px, py)
click_frame(s, px, py, delta_time) ==
  AiStep(IF s.is_winner THEN s ELSE handle_click(s, px, py), delta_time)

\* a frame of the game screen with no pointer press and no button clicked
idle_frame(s, delta_time) == AiStep(s, delta_time)

\* the "Player vs Player" button of the main menu
menu_player_vs_player(s) == restart([s EXCEPT !.game_mode = "PlayerVsPlayer"])

\* the "Player vs AI" button of the main menu
menu_player_vs_ai(s) ==
  [restart([s EXCEPT !.game_mode = "PlayerVsAI"]) EXCEPT !.color_selected = FALSE]

\* the "Black (First Move)" button
choose_black(s) ==
  [s EXCEPT !.player_is_black = TRUE, !.color_selected = TRUE, !.is_black = TRUE]

\* choose_white that leaves the turn with Black
choose_white_no_turn(s) ==
  [s EXCEPT !.player_is_black = FALSE,
            !.color_selected = TRUE,
            !.board_data = Put(s.board_data, CENTER, CENTER, 1),
            !.last_piece = 1,
            !.is_black = TRUE]

\* the "White (Second Move)" button
choose_white(s) ==
  [s EXCEPT !.player_is_black = FALSE,
            !.color_selected = TRUE,
            !.board_data = Put(s.board_data, CENTER, CENTER, 1),
            !.last_piece = 1,
            !.is_black = FALSE]

\* the assignment of either "Back to Menu" button
back_to_menu(s) == [s EXCEPT !.game_mode = "MainMenu"]

\* A frame of the game screen in which a "Back to Menu" button is clicked;
\* press is the pointer's press origin, or None.  The return after the
\* header button leaves only the closure of the header row: the frame goes
\* on, and unless the game is finished a press reaches handle_click with
\* game_mode already MainMenu.  The tail of update then skips ai_move.
back_to_menu_frame(s, press) ==
  LET menu == back_to_menu(s)
  IN IF s.is_winner \/ press = None
     THEN menu
     ELSE handle_click(menu, press[1], press[2])

\* the "Restart" button of the win dialog, and the rest of that frame
win_restart(s, delta_time) == AiStep(restart(s), delta_time)

----------------------------------------------------------------------------
(* Inputs *)

\* frame times, in hundredths of a second
Deltas == {5, 10}

\* In PlayerVsPlayer the pointer is pressed on the first PvPCells board
\* lines x of row 0, in PlayerVsAI on the first AICells lines.
PvPCells == 10

AICells == 4

\* the pixel of board line c
Pixel(c) == ORIGIN + GRID * c

\* pointer positions off the board: half a cell or more left of the first
\* line, and right of / below the last line
OffBoard == {<<0, Pixel(0)>>, <<450, Pixel(0)>>, <<Pixel(1), 450>>}

\* pointer positions near a line crossing, not on it
Clicks(s) ==
  OffBoard \cup
  {<<Pixel(c) + 3, Pixel(0) - 14>> :
     c \in 0 .. ((IF s.game_mode = "PlayerVsAI" THEN AICells ELSE PvPCells) - 1)}

----------------------------------------------------------------------------
(* The specification *)

Init ==
  /\ game_mode = Default.game_mode
  /\ board_data = Default.board_data
  /\ is_black = Default.is_black
  /\ is_winner = Default.is_winner
  /\ player_is_black = Default.player_is_black
  /\ ai_thinking = Default.ai_thinking
  /\ color_selected = Default.color_selected
  /\ ai_delay_timer = Default.ai_delay_timer
  /\ ai_pending_move = Default.ai_pending_move
  /\ last_piece = Default.last_piece

MenuPlayerVsPlayer ==
  /\ game_mode = "MainMenu"
  /\ Becomes(menu_player_vs_player(Cur))

MenuPlayerVsAI ==
  /\ game_mode = "MainMenu"
  /\ Becomes(menu_player_vs_ai(Cur))

ChooseBlack ==
  /\ game_mode = "PlayerVsAI" /\ ~color_selected
  /\ Becomes(choose_black(Cur))

ChooseWhite ==
  /\ game_mode = "PlayerVsAI" /\ ~color_selected
  /\ Becomes(choose_white(Cur))

BackToMenu ==
  /\ InGame(Cur)
  /\ \E press \in {None} \cup Clicks(Cur) : Becomes(back_to_menu_frame(Cur, press))

WinRestart ==
  /\ InGame(Cur) /\ is_winner
  /\ \E dt \in Deltas : Becomes(win_restart(Cur, dt))

ClickFrame ==
  /\ InGame(Cur)
  /\ \E p \in Clicks(Cur) : \E dt \in Deltas : Becomes(click_frame(Cur, p[1], p[2], dt))

IdleFrame ==
  /\ InGame(Cur)
  /\ \E dt \in Deltas : Becomes(idle_frame(Cur, dt))

Next ==
  \/ MenuPlayerVsPlayer
  \/ MenuPlayerVsAI
  \/ ChooseBlack
  \/ ChooseWhite
  \/ BackToMenu
  \/ WinRestart
  \/ ClickFrame
  \/ IdleFrame

Spec == Init /\ [][Next]_vars

----------------------------------------------------------------------------
(* A drawn game.  The human plays Black against the computer and presses   *)
(* the cells of DrawGame in order; the computer's replies are those of     *)
(* find_best_move.  After Black's 113th stone no cell is empty.            *)

DrawGame ==
  <<
     <<7, 7>>, <<7, 6>>, <<5, 6>>, <<6, 8>>, <<8, 7>>, <<6, 4>>,
     <<5, 7>>, <<8, 5>>, <<3, 5>>, <<4, 4>>, <<3, 6>>, <<5, 2>>,
     <<2, 8>>, <<4, 3>>, <<8, 1>>, <<8, 3>>, <<9, 2>>, <<10, 1>>,
     <<7, 4>>, <<8, 4>>, <<7, 3>>, <<6, 0>>, <<10, 4>>, <<8, 0>>,
     <<4, 7>>, <<9, 5>>, <<9, 7>>, <<10, 8>>, <<8, 9>>, <<11, 6>>,
     <<8, 8>>, <<7, 9>>, <<6, 10>>, <<9, 10>>, <<12, 0>>, <<4, 8>>,
     <<2, 4>>, <<1, 5>>, <<1, 6>>, <<2, 7>>, <<4, 9>>, <<6, 12>>,
     <<7, 11>>, <<5, 10>>, <<3, 10>>, <<3, 11>>, <<7, 10>>, <<4, 12>>,
     <<6, 13>>, <<5, 14>>, <<12, 3>>, <<11, 4>>, <<12, 1>>, <<13, 2>>,
     <<14, 4>>, <<10, 2>>, <<11, 5>>, <<14, 2>>, <<14, 0>>, <<14, 3>>,
     <<9, 0>>, <<4, 1>>, <<3, 2>>, <<1, 2>>, <<0, 3>>, <<3, 1>>,
     <<2, 0>>, <<5, 0>>, <<0, 4>>, <<1, 4>>, <<3, 14>>, <<12, 9>>,
     <<11, 10>>, <<10, 10>>, <<10, 9>>, <<12, 11>>, <<13, 9>>, <<8, 14>>,
     <<9, 11>>, <<10, 13>>, <<9, 12>>, <<8, 12>>, <<13, 11>>, <<11, 12>>,
     <<12, 8>>, <<13, 7>>, <<12, 6>>, <<13, 5>>, <<14, 9>>, <<7, 14>>,
     <<14, 7>>, <<0, 0>>, <<3, 13>>, <<2, 11>>, <<2, 12>>, <<1, 13>>,
     <<1, 14>>, <<0, 14>>, <<0, 12>>, <<4, 14>>, <<2, 9>>, <<1, 8>>,
     <<0, 9>>, <<0, 6>>, <<12, 13>>, <<14, 14>>, <<14, 12>>, <<0, 1>>,
     <<11, 13>>, <<10, 14>>, <<14, 13>>, <<13, 0>>, <<13, 4>>
  >>

\* the number of cells of b that hold piece
Stones(b, piece) ==
  Cardinality({c \in Cells \X Cells : b[c[1]][c[2]] = piece})

\* the pointer position of Black's next stone of DrawGame
DrawClick(s) ==
  LET k == Stones(s.board_data, 1) + 1
  IN IF k <= Len(DrawGame)
     THEN {<<Pixel(DrawGame[k][1]), Pixel(DrawGame[k][2])>>}
     ELSE {}

DrawClickFrame ==
  /\ game_mode = "PlayerVsAI" /\ color_selected
  /\ \E p \in DrawClick(Cur) : \E dt \in Deltas :
       Becomes(click_frame(Cur, p[1], p[2], dt))

DrawIdleFrame ==
  /\ game_mode = "PlayerVsAI" /\ color_selected
  /\ \E dt \in Deltas : Becomes(idle_frame(Cur, dt))

NextDraw ==
  \/ MenuPlayerVsAI
  \/ ChooseBlack
  \/ DrawClickFrame
  \/ DrawIdleFrame

SpecDraw == Init /\ [][NextDraw]_vars

----------------------------------------------------------------------------
(* A game with a gap.  The human plays Black against the computer and      *)
(* presses the cells of GapGame in order; the computer's replies are those *)
(* of find_best_move.  After Black's 11th stone White holds (6,8), (7,8)   *)
(* and (9,8), (10,8), (11,8), with (8,8) empty, and is to move.            *)

GapGame ==
  <<
     <<6, 6>>, <<7, 5>>, <<8, 7>>, <<9, 5>>, <<10, 9>>, <<10, 10>>,
     <<6, 9>>, <<12, 8>>, <<6, 7>>, <<5, 10>>, <<4, 9>>
  >>

\* the pointer position of Black's next stone of GapGame
GapClick(s) ==
  LET k == Stones(s.board_data, 1) + 1
  IN IF k <= Len(GapGame)
     THEN {<<Pixel(GapGame[k][1]), Pixel(GapGame[k][2])>>}
     ELSE {}

GapClickFrame ==
  /\ game_mode = "PlayerVsAI" /\ color_selected
  /\ \E p \in GapClick(Cur) : \E dt \in Deltas :
       Becomes(click_frame(Cur, p[1], p[2], dt))

NextGap ==
  \/ MenuPlayerVsAI
  \/ ChooseBlack
  \/ GapClickFrame
  \/ DrawIdleFrame

SpecGap == Init /\ [][NextGap]_vars

----------------------------------------------------------------------------
(* Boards for check_winner.  A board holds a line of pieces of one colour  *)
(* through the still empty cell anchor: arm cells on one side and reach    *)
(* cells on the other side of the first axis, a cell of value stop after   *)
(* each end, one more piece after the far stop when tail, and cross cells  *)
(* on either side on the next axis.  Cells off the board are left out.     *)
(* A PlayerVsPlayer click on the anchor then completes the line.           *)

MaxArm == 5

Anchors == {<<0, 0>>, <<7, 7>>, <<12, 2>>}

\* (i, j) is the cell at k steps from (x, y) along axis d
AtStep(i, j, x, y, d, k) ==
  i = x + directions[d][1] * k /\ j = y + directions[d][2] * k

LineBoard(anchor, piece, d, arm, reach, stop, tail, cross) ==
  LET x == anchor[1]
      y == anchor[2]
      d2 == (d % 4) + 1
  IN [i \in Cells |-> [j \in Cells |->
       IF \E k \in (-arm) .. reach : k # 0 /\ AtStep(i, j, x, y, d, k) THEN piece
       ELSE IF AtStep(i, j, x, y, d, -(arm + 1)) \/ AtStep(i, j, x, y, d, reach + 1)
            THEN stop
       ELSE IF tail /\ AtStep(i, j, x, y, d, reach + 2) THEN piece
       ELSE IF \E k \in (-cross) .. cross : k # 0 /\ AtStep(i, j, x, y, d2, k)
            THEN piece
       ELSE 0]]

InitLines ==
  /\ game_mode = "PlayerVsPlayer"
  /\ \E anchor \in Anchors : \E piece \in {1, 2} : \E d \in 1 .. 4 :
     \E arm \in 0 .. MaxArm : \E reach \in 0 .. MaxArm :
     \E stop \in {0, 3 - piece} : \E tail \in BOOLEAN : \E cross \in {0, 2} :
       /\ board_data = LineBoard(anchor, piece, d, arm, reach, stop, tail, cross)
       /\ is_black = (piece = 1)
  /\ is_winner = FALSE
  /\ player_is_black = TRUE
  /\ ai_thinking = FALSE
  /\ color_selected = FALSE
  /\ ai_delay_timer = 0
  /\ ai_pending_move = None
  /\ last_piece = 0

AnchorClickFrame ==
  /\ InGame(Cur)
  /\ \E anchor \in Anchors :
       \E dt \in Deltas :
         Becomes(click_frame(Cur, Pixel(anchor[1]), Pixel(anchor[2]), dt))

NextLines == AnchorClickFrame

SpecLines == InitLines /\ [][NextLines]_vars

----------------------------------------------------------------------------
(* Boards for the move evaluator.  The line boards above (a crossing run   *)
(* only with the first axis), in PlayerVsAI with the computer to move as   *)
(* either side; the frames let ai_move select with find_best_move, wait    *)
(* and place.                                                              *)

\* the longest arm of a line board of the evaluator: with 4 on each side
\* the counts of evaluate_direction run from 0 to 8
EvalArm == 4

EvalAnchors == {<<7, 7>>, <<12, 2>>}

InitEval ==
  /\ game_mode = "PlayerVsAI"
  /\ color_selected = TRUE
  /\ \E anchor \in EvalAnchors : \E piece \in {1, 2} : \E d \in 1 .. 4 :
     \E arm \in 0 .. EvalArm : \E reach \in 0 .. EvalArm :
     \E stop \in {0, 3 - piece} : \E cross \in (IF d = 1 THEN {0, 2} ELSE {0}) :
       board_data = LineBoard(anchor, piece, d, arm, reach, stop, FALSE, cross)
  /\ player_is_black \in BOOLEAN
  /\ is_black = ~player_is_black
  /\ is_winner = FALSE
  /\ ai_thinking = FALSE
  /\ ai_delay_timer = 0
  /\ ai_pending_move = None
  /\ last_piece = 0

\* a frame of a tenth of a second with no pointer press
SlowIdleFrame ==
  /\ InGame(Cur)
  /\ \E dt \in {d \in Deltas : d >= 10} : Becomes(idle_frame(Cur, dt))

NextEval == SlowIdleFrame

SpecEval == InitEval /\ [][NextEval]_vars

----------------------------------------------------------------------------
(* Definitions the properties are stated with *)

\* every pointer position on a line crossing, and the positions off the board
AllPointer == {<<Pixel(x), Pixel(y)>> : x \in Cells, y \in Cells} \cup OffBoard

Full(b) == \A x \in Cells : \A y \in Cells : b[x][y] # 0

\* the piece of the side to move
Mover == IF is_black THEN 1 ELSE 2

\* the computer's piece
AiPiece == IF player_is_black THEN 2 ELSE 1

\* the number of cells after (x, y) in direction (dx, dy), up to the board
\* edge, that hold piece c without a break
RECURSIVE Arm(_, _, _, _, _, _)
Arm(b, x, y, dx, dy, c) ==
  LET nx == x + dx
      ny == y + dy
  IN IF nx \notin Cells \/ ny \notin Cells THEN 0
     ELSE IF b[nx][ny] # c THEN 0
     ELSE 1 + Arm(b, nx, ny, dx, dy, c)

\* the length of the maximal unbroken run of the colour of (x, y) through
\* (x, y) on axis d
RunLength(b, x, y, d) ==
  1 + Arm(b, x, y, directions[d][1], directions[d][2], b[x][y])
    + Arm(b, x, y, -directions[d][1], -directions[d][2], b[x][y])

FiveThrough(b, x, y) == \E d \in 1 .. 4 : RunLength(b, x, y, d) >= 5

\* the rounded, not yet cast, index of a pointer coordinate
Rounded(p) == RoundDiv(p - ORIGIN)

Pending == ai_pending_move # None

----------------------------------------------------------------------------
(* C1: between two restarts every board cell changes value at most once    *)
(* and only from empty to black or white: no step other than a restart     *)
(* changes a cell that is occupied, also when the board is full.           *)
C1_NoOverwrite ==
  [][\/ board_data' = EmptyBoard
     \/ \A x \in Cells : \A y \in Cells :
          board_data[x][y] # 0 => board_data'[x][y] = board_data[x][y]]_vars

(* C10: in every in-game state that is not finished some click or tick     *)
(* changes the state, also when the board is full without a winner.        *)
C10_NoDeadEnd ==
  (InGame(Cur) /\ ~is_winner) =>
    \E dt \in Deltas :
      \/ idle_frame(Cur, dt) # Cur
      \/ \E p \in AllPointer : click_frame(Cur, p[1], p[2], dt) # Cur

(* C2: a placement for a coordinate outside 0..14 or for an occupied cell   *)
(* is rejected: handle_click leaves the whole state as it was, and so does *)
(* the same placement submitted again.                                     *)
C2_RejectedNoOp ==
  (InGame(Cur) /\ ~is_winner) =>
    \A p \in AllPointer :
      LET rx == Rounded(p[1])
          ry == Rounded(p[2])
          rejected == \/ rx \notin Cells
                      \/ ry \notin Cells
                      \/ board_data[rx][ry] # 0
      IN rejected =>
           /\ handle_click(Cur, p[1], p[2]) = Cur
           /\ handle_click(handle_click(Cur, p[1], p[2]), p[1], p[2]) = Cur

(* C3: for every occupied cell, check_winner is true exactly when on some  *)
(* axis the maximal unbroken run of its colour through it has length 5 or  *)
(* more; runs are never added across axes and do not bridge a gap.         *)
C3_CheckWinnerIffFive ==
  \A x \in Cells : \A y \in Cells :
    board_data[x][y] # 0 =>
      (check_winner(board_data, x, y) <=> FiveThrough(board_data, x, y))

\* a click has completed a run of six or more, and the game is finished
C3_Witness ==
  /\ is_winner
  /\ \E x \in Cells : \E y \in Cells :
       /\ board_data[x][y] # 0
       /\ \E d \in 1 .. 4 : RunLength(board_data, x, y, d) >= 6

(* C4: within one game the sides of successive accepted placements         *)
(* alternate, starting with Black; the computer's opening move counts as   *)
(* the first placement.  A step that puts a piece on the board puts the    *)
(* piece of the other side than the placement before it.                   *)
C4_Alternate ==
  [][(board_data' # board_data /\ board_data' # EmptyBoard) =>
       /\ last_piece' \in {1, 2}
       /\ last_piece' # last_piece
       /\ (last_piece = 0 => last_piece' = 1)
       /\ Stones(board_data', last_piece') = Stones(board_data, last_piece') + 1]_vars

\* both sides have placed twice in PlayerVsAI after the computer's opening
C4_Witness ==
  /\ game_mode = "PlayerVsAI" /\ ~player_is_black
  /\ Stones(board_data, 1) >= 3 /\ Stones(board_data, 2) >= 2

(* C5: once the game is finished no click and no tick changes the board,   *)
(* the side to move or the winner; the finished state is left only by a    *)
(* restart, after which the board is empty, Black is to move and there is  *)
(* no winner.                                                              *)
C5_FinishedFrozen ==
  [][is_winner =>
       \/ /\ is_winner'
          /\ board_data' = board_data
          /\ is_black' = is_black
       \/ /\ ~is_winner'
          /\ board_data' = EmptyBoard
          /\ is_black'
          /\ ai_pending_move' = None]_vars

\* a finished game of either mode is on the screen
C5_Witness == is_winner /\ InGame(Cur) /\ Stones(board_data, Mover) >= 5

(* C6: the game becomes finished only by a placement whose win check       *)
(* succeeded: the step that sets is_winner puts one piece of the recorded  *)
(* winner on an empty cell and that cell lies on an unbroken run of five   *)
(* or more of the winner's pieces; in every finished state the latest      *)
(* placement is the winner's and the board holds such a run.               *)
C6_Step ==
  (is_winner' /\ ~is_winner) =>
    \E x \in Cells : \E y \in Cells :
      /\ board_data[x][y] = 0
      /\ board_data' = Put(board_data, x, y, Mover')
      /\ last_piece' = Mover'
      /\ FiveThrough(board_data', x, y)

C6_State ==
  is_winner =>
    /\ last_piece = Mover
    /\ \E x \in Cells : \E y \in Cells :
         board_data[x][y] = Mover /\ FiveThrough(board_data, x, y)

C6_WinByFive == [][C6_Step]_vars /\ []C6_State

\* the computer has won
C6_Witness == is_winner /\ game_mode = "PlayerVsAI" /\ Mover = AiPiece

(* C7: right after the human chooses White the board holds exactly one     *)
(* piece, a black one at (7,7), it is White's turn, there is no winner and *)
(* no computer move is pending; right after the human chooses Black the    *)
(* board is empty and it is Black's, the human's, turn.                    *)
C7_AfterWhite ==
  /\ board_data = Put(EmptyBoard, 7, 7, 1)
  /\ ~is_black
  /\ ~player_is_black
  /\ ~is_winner
  /\ ai_pending_move = None
  /\ game_mode = "PlayerVsAI"

C7_AfterBlack ==
  /\ board_data = EmptyBoard
  /\ is_black
  /\ player_is_black
  /\ ~is_winner
  /\ game_mode = "PlayerVsAI"

C7_ColourChoice ==
  [][/\ ChooseWhite => C7_AfterWhite'
     /\ ChooseBlack => C7_AfterBlack']_vars

\* the game screen after White was chosen
C7_Witness == C7_AfterWhite /\ color_selected

(* C8: when it is the computer's turn and no move is pending, the tick of  *)
(* the frame selects a target with find_best_move and stores it as pending *)
(* with elapsed 0, without placing it; each later tick adds its delta to   *)
(* the elapsed time, and the target is placed on the first tick at which   *)
(* the sum reaches 0.5 s (50) or more, never earlier; the placement passes *)
(* the turn or finishes the game.                                          *)

\* a step of a frame of the PlayerVsAI game screen in an unfinished game
C8_Frame ==
  /\ game_mode = "PlayerVsAI" /\ color_selected /\ ~is_winner
  /\ game_mode' = "PlayerVsAI"

C8_Select ==
  /\ (~is_winner' /\ Mover' = AiPiece') => Pending'
  /\ (~Pending /\ Pending') =>
       /\ ai_pending_move' = find_best_move(Cur')
       /\ ai_delay_timer' = 0
       /\ ai_thinking'
       /\ Mover' = AiPiece'
       /\ Stones(board_data', AiPiece) = Stones(board_data, AiPiece)

C8_Advance ==
  Pending =>
    \E dt \in Deltas :
      IF ai_delay_timer + dt >= 50
      THEN /\ board_data' =
                Put(board_data, ai_pending_move[1], ai_pending_move[2], AiPiece)
           /\ ~Pending'
           /\ \/ is_winner' /\ is_black' = is_black
              \/ ~is_winner' /\ is_black' = ~is_black /\ ai_delay_timer' = 0
      ELSE /\ ai_delay_timer' = ai_delay_timer + dt
           /\ board_data' = board_data
           /\ ai_pending_move' = ai_pending_move
           /\ is_black' = is_black
           /\ ~is_winner'

C8_Tick == [][C8_Frame => (C8_Select /\ C8_Advance)]_vars

\* a move is pending with 0.45 s elapsed: the tick of 0.05 s at 0.4 s did
\* not place it
C8_Witness == Pending /\ ai_delay_timer = 45 /\ InGame(Cur)

(* C9: once a computer move is pending it is eventually applied, provided  *)
(* ticks with a positive delta keep arriving and no restart happens; only  *)
(* its application and restart (from the win dialog or by choosing a mode  *)
(* in the menu) end a pending move.                                        *)

\* a tick of ai_move with a positive delta
PositiveTick ==
  /\ game_mode = "PlayerVsAI" /\ color_selected /\ ~is_winner
  /\ \E dt \in {d \in Deltas : d > 0} : Becomes(idle_frame(Cur, dt))

C9_Applied ==
  /\ board_data' = Put(board_data, ai_pending_move[1], ai_pending_move[2], AiPiece)
  /\ last_piece' = AiPiece
  /\ game_mode' = "PlayerVsAI"

C9_Restarted ==
  /\ game_mode = "MainMenu" \/ is_winner
  /\ board_data' = EmptyBoard
  /\ ai_delay_timer' = 0
  /\ ~ai_thinking'

C9_PendingCompletes ==
  /\ ([]<><<PositiveTick>>_vars) => (Pending ~> ~Pending)
  /\ [][(Pending /\ ~Pending') => (C9_Applied \/ C9_Restarted)]_vars

\* a pending move has waited through some ticks
C9_Witness == Pending /\ ai_delay_timer > 0 /\ game_mode = "PlayerVsAI"

(* C11: in PlayerVsAI a press while it is the computer's turn, with or      *)
(* without a move pending, changes nothing (board, side to move, winner,   *)
(* pending target, timer); so while a move stays pending the board and the *)
(* target stay as they were when the target was selected.                  *)
C11_ClickNoOp ==
  (game_mode = "PlayerVsAI" /\ Mover = AiPiece) =>
    \A p \in AllPointer : handle_click(Cur, p[1], p[2]) = Cur

\* the press that hands the turn to the computer, before ai_move has
\* selected: a second press is a no-op
C11_ClickBeforeSelect ==
  (game_mode = "PlayerVsAI" /\ color_selected /\ ~is_winner /\ Mover # AiPiece) =>
    \A p \in Clicks(Cur) :
      LET s2 == handle_click(Cur, p[1], p[2])
      IN (s2 # Cur /\ ~s2.is_winner) =>
           /\ s2.ai_pending_move = None
           /\ \A q \in AllPointer : handle_click(s2, q[1], q[2]) = s2

C11_PendingStep ==
  (Pending /\ Pending') =>
    /\ board_data' = board_data
    /\ ai_pending_move' = ai_pending_move
    /\ is_black' = is_black
    /\ is_winner' = is_winner

C11_ComputerTurnClick ==
  /\ [](C11_ClickNoOp /\ C11_ClickBeforeSelect)
  /\ [][C11_PendingStep]_vars

(* C12: the side the human controls, chosen at colour selection, does not  *)
(* change without a new colour selection: no step that starts and ends on  *)
(* the PlayerVsAI game screen changes player_is_black, the restart of the  *)
(* win dialog included.                                                    *)
C12_AssignmentFixed ==
  [][(/\ game_mode = "PlayerVsAI" /\ color_selected
      /\ game_mode' = "PlayerVsAI" /\ color_selected')
     => player_is_black' = player_is_black]_vars

(* C13: restart from any reachable state gives the initial game state:     *)
(* empty board, Black to move, no winner, no pending move, thinking flag   *)
(* off, timer 0, and the game mode as it was; so does every step that      *)
(* restarts, from the win dialog or by choosing a mode in the menu.        *)
C13_Fresh(s) ==
  /\ s.board_data = EmptyBoard
  /\ s.is_black
  /\ ~s.is_winner
  /\ s.ai_pending_move = None
  /\ ~s.ai_thinking
  /\ s.ai_delay_timer = 0

C13_Call == C13_Fresh(restart(Cur)) /\ restart(Cur).game_mode = game_mode

C13_Step ==
  /\ (InGame(Cur) /\ is_winner /\ ~is_winner') =>
       /\ board_data' = EmptyBoard /\ is_black' /\ ai_pending_move' = None
       /\ ~ai_thinking' /\ ai_delay_timer' = 0 /\ game_mode' = game_mode
  /\ (game_mode = "MainMenu" /\ game_mode' # "MainMenu") =>
       /\ board_data' = EmptyBoard /\ is_black' /\ ~is_winner'
       /\ ai_pending_move' = None /\ ~ai_thinking' /\ ai_delay_timer' = 0

C13_RestartInitial == []C13_Call /\ [][C13_Step]_vars

\* a finished game won by the computer as Black, its timer not reset
C13_Witness ==
  /\ is_winner /\ ~player_is_black /\ is_black
  /\ ai_delay_timer >= AI_DELAY /\ game_mode = "PlayerVsAI"

(* C14: exactly one turn state is active in every reachable state: the     *)
(* game is never both finished and holding a pending computer move, a move *)
(* is pending only in PlayerVsAI mode with the computer's side to move,    *)
(* and ai_thinking is true exactly when a move is pending.                 *)
C14_OneTurnState ==
  /\ ~(is_winner /\ Pending)
  /\ Pending => (game_mode = "PlayerVsAI" /\ Mover = AiPiece)
  /\ ai_thinking <=> Pending

(* C14 as amended: on the PlayerVsAI game screen the game is never both    *)
(* finished and holding a pending computer move, and a move is pending     *)
(* only with the computer's side to move; outside it a move is pending     *)
(* only in the main menu, after a "Back to Menu" frame left a PlayerVsAI   *)
(* game with its move stored; ai_thinking is true exactly when a move is   *)
(* pending.                                                                *)
C14_OneTurnStateOrMenu ==
  /\ game_mode = "PlayerVsAI" => ~(is_winner /\ Pending)
  /\ Pending => game_mode \in {"PlayerVsAI", "MainMenu"}
  /\ (Pending /\ game_mode = "PlayerVsAI") => (color_selected /\ Mover = AiPiece)
  /\ ai_thinking <=> Pending

\* the menu, entered from a PlayerVsAI game whose move is still pending, by
\* a frame whose press placed a stone for the computer's side
C14_Witness ==
  game_mode = "MainMenu" /\ Pending /\ ai_thinking /\ Mover # AiPiece

(* C15: on an empty board find_best_move returns (7,7), whichever side the *)
(* computer plays.                                                         *)
C15_EmptyBoardCentre ==
  /\ board_data = EmptyBoard => find_best_move(Cur) = <<7, 7>>
  /\ (board_data = EmptyBoard /\ Pending) => ai_pending_move = <<7, 7>>

\* ai_move has selected on the empty board for the computer as Black
C15_Witness ==
  /\ board_data = EmptyBoard /\ ~player_is_black /\ is_black
  /\ ai_pending_move = <<7, 7>> /\ ai_delay_timer = 0

(* C16: on a board with an empty cell find_best_move returns an empty cell *)
(* whose evaluate_position score is the greatest of all empty cells, and   *)
(* of the cells with that score the first in scan order (first index       *)
(* ascending, then second index ascending).  Stated of the cell ai_move    *)
(* has just stored, on the board it was selected on.                       *)
Score(c) == evaluate_position(board_data, c[1], c[2], AiPiece, 3 - AiPiece)

ScanBefore(c, e) == c[1] < e[1] \/ (c[1] = e[1] /\ c[2] < e[2])

JustSelected == game_mode = "PlayerVsAI" /\ Pending /\ ai_delay_timer = 0

C16_FirstMaximum ==
  (JustSelected /\ ~Full(board_data)) =>
    LET m == ai_pending_move
        top == Score(m)
    IN /\ m \in Cells \X Cells
       /\ board_data[m[1]][m[2]] = 0
       /\ \A c \in Cells \X Cells :
            board_data[c[1]][c[2]] = 0 =>
              LET v == Score(c)
              IN /\ v <= top
                 /\ (v = top => ~ScanBefore(c, m))

\* the selected cell shares the greatest score with a later empty cell
C16_Witness ==
  /\ JustSelected /\ board_data # EmptyBoard
  /\ \E c \in Cells \X Cells :
       /\ board_data[c[1]][c[2]] = 0
       /\ ScanBefore(ai_pending_move, c)
       /\ Score(c) = Score(ai_pending_move)

(* C17: for every empty cell (x, y), evaluate_position is the sum over the *)
(* four axes of 10 times the computer side's directional value plus 8      *)
(* times the opponent side's, plus (14 - (|x-7| + |y-7|)) * 2.  The        *)
(* directional value of a side on an axis: scan up to 4 cells each way     *)
(* from (x, y), count the contiguous cells of that side, an empty cell     *)
(* ends the scan unblocked, the board edge or a cell of the other colour   *)
(* ends it with one blocked end; count 4 gives 10000, count 3 gives 1000   *)
(* with no blocked end else 100, count 2 gives 100 else 10, count 1 gives  *)
(* 10 else 1, count 0 gives 0.  The mapping names no value for a count     *)
(* above 4, so the cells where a count is above 4 are not constrained.     *)
OnBoard(x, y) == x \in Cells /\ y \in Cells

\* the cell j steps from (x, y) is on the board and holds piece
C17_Holds(b, x, y, dx, dy, piece, j) ==
  /\ OnBoard(x + dx * j, y + dy * j)
  /\ b[x + dx * j][y + dy * j] = piece

\* the contiguous cells of piece counted one way from (x, y), at most 4
C17_Run(b, x, y, dx, dy, piece) ==
  IF ~C17_Holds(b, x, y, dx, dy, piece, 1) THEN 0
  ELSE IF ~C17_Holds(b, x, y, dx, dy, piece, 2) THEN 1
  ELSE IF ~C17_Holds(b, x, y, dx, dy, piece, 3) THEN 2
  ELSE IF ~C17_Holds(b, x, y, dx, dy, piece, 4) THEN 3
  ELSE 4

\* 1 when the scan one way, having counted k cells, ends at the edge or at
\* the other colour
C17_End(b, x, y, dx, dy, k) ==
  LET nx == x + dx * (k + 1)
      ny == y + dy * (k + 1)
  IN IF k = 4 THEN 0
     ELSE IF ~OnBoard(nx, ny) THEN 1
     ELSE IF b[nx][ny] = 0 THEN 0
     ELSE 1

C17_Count(b, x, y, d, piece) ==
  C17_Run(b, x, y, directions[d][1], directions[d][2], piece)
  + C17_Run(b, x, y, -directions[d][1], -directions[d][2], piece)

C17_Blocked(b, x, y, d, piece) ==
  C17_End(b, x, y, directions[d][1], directions[d][2],
          C17_Run(b, x, y, directions[d][1], directions[d][2], piece))
  + C17_End(b, x, y, -directions[d][1], -directions[d][2],
            C17_Run(b, x, y, -directions[d][1], -directions[d][2], piece))

C17_Value(count, blocked) ==
  CASE count = 4 -> 10000
    [] count = 3 -> IF blocked = 0 THEN 1000 ELSE 100
    [] count = 2 -> IF blocked = 0 THEN 100 ELSE 10
    [] count = 1 -> IF blocked = 0 THEN 10 ELSE 1
    [] count = 0 -> 0

C17_Directional(b, x, y, d, piece) ==
  LET dx == directions[d][1]
      dy == directions[d][2]
      fore == C17_Run(b, x, y, dx, dy, piece)
      back == C17_Run(b, x, y, -dx, -dy, piece)
  IN C17_Value(fore + back,
               C17_End(b, x, y, dx, dy, fore) + C17_End(b, x, y, -dx, -dy, back))

C17_Axis(b, x, y, d, side) ==
  10 * C17_Directional(b, x, y, d, side) + 8 * C17_Directional(b, x, y, d, 3 - side)

C17_Total(b, x, y, side) ==
  C17_Axis(b, x, y, 1, side) + C17_Axis(b, x, y, 2, side)
  + C17_Axis(b, x, y, 3, side) + C17_Axis(b, x, y, 4, side)
  + (14 - (Abs(x - 7) + Abs(y - 7))) * 2

C17_Covered(b, x, y) ==
  \A d \in 1 .. 4 : \A piece \in {1, 2} : C17_Count(b, x, y, d, piece) <= 4

C17_PositionScore ==
  JustSelected =>
    \A x \in Cells : \A y \in Cells :
      (board_data[x][y] = 0 /\ C17_Covered(board_data, x, y)) =>
        evaluate_position(board_data, x, y, AiPiece, 3 - AiPiece)
          = C17_Total(board_data, x, y, AiPiece)

\* the computer has selected on a board where the empty cell (12, 2) has
\* three of its side on the first axis, ended by the board edge on one
\* side, and four on the second axis
C17_Witness ==
  /\ JustSelected
  /\ board_data[12][2] = 0 /\ C17_Covered(board_data, 12, 2)
  /\ C17_Count(board_data, 12, 2, 1, AiPiece) = 3
  /\ C17_Blocked(board_data, 12, 2, 1, AiPiece) = 1
  /\ C17_Count(board_data, 12, 2, 2, AiPiece) = 4

(* C18: in every reachable state in which a computer move is pending, the  *)
(* pending target is a cell of the board and that cell is empty, from the  *)
(* tick that selects it to the tick that applies it.                       *)
C18_PendingTargetEmpty ==
  Pending =>
    /\ ai_pending_move \in Cells \X Cells
    /\ board_data[ai_pending_move[1]][ai_pending_move[2]] = 0

(* C19: every win is detected at the placement that creates it: in every   *)
(* reachable state in which the game is not finished, no cell of the board *)
(* lies on an unbroken run of five or more pieces of its colour, on any    *)
(* axis.                                                                   *)
C19_NoUndetectedFive ==
  ~is_winner =>
    \A x \in Cells : \A y \in Cells :
      board_data[x][y] # 0 => ~FiveThrough(board_data, x, y)

\* an unfinished game in which a side has four in an unbroken line
C19_Witness ==
  /\ InGame(Cur) /\ ~is_winner
  /\ \E x \in Cells : \E y \in Cells : \E d \in 1 .. 4 :
       board_data[x][y] # 0 /\ RunLength(board_data, x, y, d) = 4

(* C20: the piece counts track the turn: in every reachable in-game state  *)
(* that is not finished there are as many black pieces as white when Black *)
(* is to move, and one more black piece than white when White is to move.  *)
C20_CountsTrackTurn ==
  (InGame(Cur) /\ ~is_winner) =>
    Stones(board_data, 1) = Stones(board_data, 2) + (IF is_black THEN 0 ELSE 1)

(* C21: the computer never misses an immediate win: on every board where   *)
(* some empty cell, taken by the computer's side, makes check_winner true  *)
(* for that cell, the cell find_best_move returns is such a cell.  Stated  *)
(* of the cell ai_move has just stored, on the board it was selected on.   *)
WinsAt(c) ==
  /\ board_data[c[1]][c[2]] = 0
  /\ check_winner(Put(board_data, c[1], c[2], AiPiece), c[1], c[2])

C21_TakesImmediateWin ==
  (JustSelected /\ \E c \in Cells \X Cells : WinsAt(c)) =>
    WinsAt(ai_pending_move)

====
